---- MODULE Spec2Model ----
(***************************************************************************)
(* SSL certificate checker: SSLCheckerService.check_certificate            *)
(* (app/services/ssl_checker.py) and the two tool branches of              *)
(* SSLAgent._execute_function (app/agents/simple_ai_agent.py).             *)
(*                                                                         *)
(* Time is counted in ticks; one day is DayTicks ticks.  The wall clock    *)
(* `now` may advance between any two steps of a check.                     *)
(***************************************************************************)
EXTENDS Integers, Sequences, FiniteSets, TLC

VARIABLES
    now,          \* wall clock, in ticks
    warning_days, \* SSLCheckerService.warning_days
    world,        \* what a server may answer with in this run (set of DER blobs)
    request,      \* the call being served: [fn, domains]
    pc,           \* position inside the call
    i,            \* index of the domain being checked (1-based)
    sockets,      \* sockets currently open
    attempts,     \* connection attempts made for the current domain
    cause,        \* what went wrong in the current check ("none" if nothing)
    exc,          \* exception in flight: Some([cls, text]) or None
    cert_der,     \* bytes returned by _get_certificate
    certificate,  \* SSLCertificate built by _parse_certificate
    log,          \* history: what each check so far was given and produced
    result,       \* SSLCheckResult returned by the last check_certificate
    results,      \* `results` list of the check_multiple_domains branch
    ret           \* value returned by the call

vars == <<now, warning_days, world, request, pc, i, sockets, attempts, cause,
          exc, cert_der, certificate, log, result, results, ret>>

----------------------------------------------------------------------------
(* Bounds of the model *)

MaxDomains == 2
DayTicks == 2
MaxClock == 3
MaxWarningDays == 31
MaxSerialBytes == 8

(* Program constants *)

DefaultWarningDays == 30
CriticalDays == 7
WeakKeyBits == 2048
SerialChars == 16

(* Optional values: None is the empty sequence, Some(x) the one-element one. *)
None == <<>>
Some(x) == <<x>>

Domains == {"a.com", "b.com"}

----------------------------------------------------------------------------
(* Exceptions: the classes the standard library and `cryptography` raise   *)
(* in _get_certificate and _parse_certificate, with their base classes.    *)

Bases ==
    [ c \in {"Exception", "OSError", "socket.timeout", "socket.gaierror",
             "ssl.SSLError", "ssl.SSLCertVerificationError", "ssl.SSLEOFError",
             "ConnectionRefusedError", "ConnectionResetError",
             "ValueError", "AttributeError"} |->
        CASE c = "Exception"                    -> {}
          [] c = "OSError"                      -> {"Exception"}
          [] c = "socket.timeout"               -> {"OSError"}
          [] c = "socket.gaierror"              -> {"OSError"}
          [] c = "ssl.SSLError"                 -> {"OSError"}
          [] c = "ssl.SSLCertVerificationError" -> {"ssl.SSLError", "ValueError"}
          [] c = "ssl.SSLEOFError"              -> {"ssl.SSLError"}
          [] c = "ConnectionRefusedError"       -> {"OSError"}
          [] c = "ConnectionResetError"         -> {"OSError"}
          [] c = "ValueError"                   -> {"Exception"}
          [] c = "AttributeError"               -> {"Exception"} ]

RECURSIVE IsInstance(_, _)
IsInstance(cls, base) ==
    \/ cls = base
    \/ \E b \in Bases[cls] : IsInstance(b, base)

(* What create_connection raises for each way the connection can fail. *)
ConnectCauses == {"connect_timeout", "dns_failure", "refused"}

ConnectRaises(c) ==
    CASE c = "connect_timeout" -> [cls |-> "socket.timeout", text |-> "timed out"]
      [] c = "dns_failure"     -> [cls |-> "socket.gaierror",
                                   text |-> "[Errno -2] Name or service not known"]
      [] c = "refused"         -> [cls |-> "ConnectionRefusedError",
                                   text |-> "[Errno 111] Connection refused"]

(* What wrap_socket raises for each way the handshake can fail. *)
HandshakeCauses == {"handshake_timeout", "protocol_error", "untrusted",
                    "hostname_mismatch", "eof", "reset"}

HandshakeRaises(c) ==
    CASE c = "handshake_timeout" -> [cls |-> "socket.timeout",
                                     text |-> "_ssl.c: The handshake operation timed out"]
      [] c = "protocol_error"    -> [cls |-> "ssl.SSLError",
                                     text |-> "[SSL: WRONG_VERSION_NUMBER] wrong version number"]
      [] c = "untrusted"         -> [cls |-> "ssl.SSLCertVerificationError",
                                     text |-> "[SSL: CERTIFICATE_VERIFY_FAILED] self-signed certificate"]
      [] c = "hostname_mismatch" -> [cls |-> "ssl.SSLCertVerificationError",
                                     text |-> "[SSL: CERTIFICATE_VERIFY_FAILED] Hostname mismatch"]
      [] c = "expired"           -> [cls |-> "ssl.SSLCertVerificationError",
                                     text |-> "[SSL: CERTIFICATE_VERIFY_FAILED] certificate has expired"]
      [] c = "eof"               -> [cls |-> "ssl.SSLEOFError",
                                     text |-> "EOF occurred in violation of protocol"]
      [] c = "reset"             -> [cls |-> "ConnectionResetError",
                                     text |-> "[Errno 104] Connection reset by peer"]

----------------------------------------------------------------------------
(* Servers' leaf certificates.  A DER blob is either a certificate the     *)
(* parser decodes or bytes it rejects.                                     *)

Attr(oid, value) == [oid |-> oid, value |-> value]

(* A certificate the `cryptography` parser decodes: validity window in     *)
(* ticks, public key, issuer and subject distinguished names.              *)
Cert(na, alg, bits, issuer, subject) ==
    [kind |-> "der", notBefore |-> 0 - DayTicks, notAfter |-> na,
     keyAlg |-> alg, keySize |-> bits, issuer |-> issuer, subject |-> subject,
     serial |-> <<4, 210>>]

(* The same certificate with another serial number, given as the bytes of  *)
(* its big-endian encoding.                                                *)
WithSerial(c, bytes) == [c EXCEPT !.serial = bytes]

SerialByteValues == {0, 15, 165}

Serials == UNION { [1..n -> SerialByteValues] : n \in 1..MaxSerialBytes }

(* Bytes the TLS library hands over but load_der_x509_certificate rejects. *)
Malformed == [kind |-> "malformed"]

IssuerR3 == <<Attr("organizationName", "Let's Encrypt"), Attr("commonName", "R3")>>
IssuerNoCN == <<Attr("organizationName", "Internal CA")>>
SubjectA == <<Attr("commonName", "a.com")>>
SubjectNone == <<>>

KeySizes == {1024, 2047, WeakKeyBits, 4096}

(* Certificates of the single-check specification: every expiry tick up to *)
(* MaxWarningDays + 2 days ahead, every key size.                          *)
MaxNotAfter == (MaxWarningDays + 2) * DayTicks

ServiceWorld ==
    { Cert(na, "RSA", bits, IssuerR3, SubjectA) :
          na \in 1..MaxNotAfter, bits \in KeySizes }
    \cup { Cert(DayTicks, "EC", 256, IssuerR3, SubjectA),
           Cert(DayTicks, "Ed25519", 0, IssuerR3, SubjectA),
           Malformed }

(* Certificates of the agent specification: a few of each kind. *)
AgentWorld ==
    { Cert(1, "RSA", 2048, IssuerR3, SubjectA),
      Cert(DayTicks * (CriticalDays + 1), "RSA", 1024, IssuerNoCN, SubjectNone),
      Cert(DayTicks * (DefaultWarningDays + 1), "RSA", 4096, IssuerR3, SubjectA),
      Cert(DayTicks, "Ed25519", 0, IssuerR3, SubjectA),
      Malformed }

----------------------------------------------------------------------------
(* _parse_certificate *)

Abs(n) == IF n < 0 THEN 0 - n ELSE n

(* First commonName attribute of a distinguished name, else the default. *)
RECURSIVE FirstCN(_, _)
FirstCN(dn, default) ==
    IF dn = <<>> THEN default
    ELSE IF Head(dn).oid = "commonName" THEN Head(dn).value
    ELSE FirstCN(Tail(dn), default)

(* Strings that are cut are sequences of one-character strings.            *)
HexChars == <<"0", "1", "2", "3", "4", "5", "6", "7",
              "8", "9", "a", "b", "c", "d", "e", "f">>

(* The hexadecimal digits of the bytes, two per byte. *)
Nibbles(bytes) ==
    [k \in 1..(2 * Len(bytes)) |->
        IF k % 2 = 1 THEN bytes[(k + 1) \div 2] \div 16
                     ELSE bytes[k \div 2] % 16]

(* The digits of the number: no leading zero, one digit for zero. *)
RECURSIVE StripZeros(_)
StripZeros(digits) ==
    IF Len(digits) > 1 /\ Head(digits) = 0 THEN StripZeros(Tail(digits))
    ELSE digits

(* hex(cert.serial_number) *)
Hex(bytes) ==
    LET digits == StripZeros(Nibbles(bytes))
    IN  <<"0", "x">> \o [k \in 1..Len(digits) |-> HexChars[digits[k] + 1]]

(* text[:n] *)
Take(text, n) == SubSeq(text, 1, IF n < Len(text) THEN n ELSE Len(text))

(* Variant of SerialNumber keeping 16 digits after the prefix. *)
SerialNumberDigits(bytes) == Take(Hex(bytes), SerialChars + 2)

(* hex(cert.serial_number)[:16] *)
SerialNumber(bytes) == Take(Hex(bytes), SerialChars)

(* Variant of DaysUntilExpiry dropping the fraction of a day toward zero. *)
DaysUntilExpiryTrunc(notAfter, t) ==
    IF notAfter >= t THEN (notAfter - t) \div DayTicks
    ELSE 0 - ((t - notAfter) \div DayTicks)

(* Variant of DaysUntilExpiry rounding to the nearest day. *)
DaysUntilExpiryRounded(not_after, t) ==
    (not_after - t + DayTicks \div 2) \div DayTicks

(* (not_after - now).days: timedelta.days is the floor of the difference. *)
DaysUntilExpiry(not_after, t) == (not_after - t) \div DayTicks

IsExpired(not_after, t) == t > not_after

(* Variants of IsExpiringSoon with a comparison changed. *)
IsExpiringSoonNoLower(days, wd) == days <= wd
IsExpiringSoonStrict(days, wd) == (0 < days) /\ (days < wd)

IsExpiringSoon(days, wd) == (0 < days) /\ (days <= wd)

(* The exception _parse_certificate raises on these bytes, if any. *)
ParseRaises(der) ==
    IF der.kind = "malformed"
    THEN Some([cls |-> "ValueError", text |-> "error parsing asn1 value"])
    ELSE IF der.keyAlg = "Ed25519"
    THEN Some([cls |-> "AttributeError",
               text |-> "'Ed25519PublicKey' object has no attribute 'key_size'"])
    ELSE None

ParseCertificate(der, domain, t, wd) ==
    LET days == DaysUntilExpiry(der.notAfter, t)
        is_expired == IsExpired(der.notAfter, t)
    IN  [domain |-> domain,
         isValid |-> ~is_expired,
         issuer |-> FirstCN(der.issuer, "Unknown"),
         subject |-> FirstCN(der.subject, domain),
         notBefore |-> der.notBefore,
         notAfter |-> der.notAfter,
         daysUntilExpiry |-> days,
         isExpired |-> is_expired,
         isExpiringSoon |-> IsExpiringSoon(days, wd),
         keySize |-> der.keySize,
         serialNumber |-> SerialNumber(der.serial)]

----------------------------------------------------------------------------
(* _generate_warnings *)

ExpiredWarning(days) ==
    "(!) Certificate EXPIRED " \o ToString(Abs(days)) \o " days ago"
CriticalWarning(days) ==
    "(!!) Certificate expires in " \o ToString(days) \o " days (CRITICAL)"
ExpiringWarning(days) ==
    "(!) Certificate expires in " \o ToString(days) \o " days"
WeakKeyWarning == "(!) Weak key size (< 2048 bits)"

(* Variant of ExpiryWarnings testing the critical threshold first. *)
ExpiryWarningsCriticalFirst(cert) ==
    IF cert.daysUntilExpiry <= CriticalDays
    THEN <<CriticalWarning(cert.daysUntilExpiry)>>
    ELSE IF cert.isExpired THEN <<ExpiredWarning(cert.daysUntilExpiry)>>
    ELSE IF cert.isExpiringSoon THEN <<ExpiringWarning(cert.daysUntilExpiry)>>
    ELSE <<>>

(* Variant of ExpiryWarnings without the critical threshold. *)
ExpiryWarningsFlagsOnly(cert) ==
    IF cert.isExpired THEN <<ExpiredWarning(cert.daysUntilExpiry)>>
    ELSE IF cert.isExpiringSoon THEN <<ExpiringWarning(cert.daysUntilExpiry)>>
    ELSE <<>>

ExpiryWarnings(cert) ==
    IF cert.isExpired THEN <<ExpiredWarning(cert.daysUntilExpiry)>>
    ELSE IF cert.daysUntilExpiry <= CriticalDays
    THEN <<CriticalWarning(cert.daysUntilExpiry)>>
    ELSE IF cert.isExpiringSoon THEN <<ExpiringWarning(cert.daysUntilExpiry)>>
    ELSE <<>>

KeyWarnings(cert) ==
    IF cert.keySize < WeakKeyBits THEN <<WeakKeyWarning>> ELSE <<>>

(* Variant of GenerateWarnings with the key check chained as another elif. *)
GenerateWarningsElif(cert) ==
    IF ExpiryWarnings(cert) # <<>> THEN ExpiryWarnings(cert)
    ELSE KeyWarnings(cert)

GenerateWarnings(cert) == ExpiryWarnings(cert) \o KeyWarnings(cert)

----------------------------------------------------------------------------
(* check_certificate: the except clauses, in source order *)

(* Variants of Handlers: no catch-all clause; first two messages swapped. *)
HandlersNoCatchAll == <<"socket.timeout", "socket.gaierror", "ssl.SSLError">>
HandlersSwapped == <<"socket.gaierror", "socket.timeout", "ssl.SSLError", "Exception">>

Handlers == <<"socket.timeout", "socket.gaierror", "ssl.SSLError", "Exception">>

(* Index of the first except clause that matches, 0 if none does. *)
HandlerFor(cls) ==
    LET hits == { k \in 1..Len(Handlers) : IsInstance(cls, Handlers[k]) }
    IN  IF hits = {} THEN 0
        ELSE CHOOSE k \in hits : \A j \in hits : k <= j

(* Variant of ErrorText with the last clause reusing the SSL prefix. *)
ErrorTextCopyPaste(k, e) ==
    CASE k = 1 -> "Connection timeout"
      [] k = 2 -> "Domain not found (DNS error)"
      [] k = 3 -> "SSL error: " \o e.text
      [] k = 4 -> "SSL error: " \o e.text

ErrorText(k, e) ==
    CASE k = 1 -> "Connection timeout"
      [] k = 2 -> "Domain not found (DNS error)"
      [] k = 3 -> "SSL error: " \o e.text
      [] k = 4 -> "Unexpected error: " \o e.text

SuccessResult(domain, cert, warnings, t) ==
    [domain |-> domain, success |-> TRUE, certificate |-> Some(cert),
     error |-> None, checkedAt |-> t, warnings |-> warnings]

(* Variant of FailedResult that leaves `error` unset. *)
FailedResultNoError(domain, error, t) ==
    [domain |-> domain, success |-> FALSE, certificate |-> None,
     error |-> None, checkedAt |-> t, warnings |-> <<>>]

FailedResult(domain, error, t) ==
    [domain |-> domain, success |-> FALSE, certificate |-> None,
     error |-> Some(error), checkedAt |-> t, warnings |-> <<>>]

----------------------------------------------------------------------------
(* _execute_function: what each branch builds from an SSLCheckResult *)

(* strftime('%Y-%m-%d') of a tick: the day it falls in. *)
FormatDate(t) == "day " \o ToString(t \div DayTicks)

SingleResponse(domain, r) ==
    IF r.success
    THEN LET c == r.certificate[1]
         IN  [success |-> TRUE, domain |-> domain,
              certificate |-> [issuer |-> c.issuer, subject |-> c.subject,
                               valid_from |-> c.notBefore,
                               valid_until |-> c.notAfter,
                               days_until_expiry |-> c.daysUntilExpiry,
                               is_valid |-> c.isValid,
                               is_expiring_soon |-> c.isExpiringSoon],
              message |-> "(ok) SSL certificate for " \o domain
                          \o " is valid until " \o FormatDate(c.notAfter)
                          \o " (" \o ToString(c.daysUntilExpiry)
                          \o " days remaining)"]
    ELSE [success |-> FALSE, domain |-> domain, error |-> r.error[1],
          message |-> "(x) Failed to check SSL for " \o domain \o ": "
                      \o r.error[1]]

(* The Status line of the A2A artifact summary of a check_ssl_certificate   *)
(* response.                                                               *)
ArtifactStatus(content) ==
    IF "success" \in DOMAIN content /\ content.success THEN "(ok) Valid"
    ELSE "(x) Invalid"

(* Variant of Summary that labels every fetched certificate Valid. *)
SummaryAllValid(domain, r) ==
    IF r.success
    THEN LET c == r.certificate[1]
         IN  [domain |-> domain,
              status |-> "(ok) Valid",
              days_remaining |-> c.daysUntilExpiry,
              expires |-> FormatDate(c.notAfter)]
    ELSE [domain |-> domain, status |-> "(x) Error", error |-> r.error[1]]

Summary(domain, r) ==
    IF r.success
    THEN LET c == r.certificate[1]
         IN  [domain |-> domain,
              status |-> IF c.isValid THEN "(ok) Valid" ELSE "(x) Invalid",
              days_remaining |-> c.daysUntilExpiry,
              expires |-> FormatDate(c.notAfter)]
    ELSE [domain |-> domain, status |-> "(x) Error", error |-> r.error[1]]

BatchResponse(domains, rs) ==
    [success |-> TRUE, total_domains |-> Len(domains), results |-> rs,
     message |-> "Checked " \o ToString(Len(domains)) \o " domain(s)"]

UnknownResponse(fn) ==
    [success |-> FALSE, error |-> "Unknown function: " \o fn]

----------------------------------------------------------------------------
(* State machine *)

DomainLists == UNION { [1..n -> Domains] : n \in 0..MaxDomains }

CurrentDomain == request.domains[i]

(* Entry of check_certificate for the i-th domain of the request. *)
StartCheck(k) ==
    /\ i' = k
    /\ pc' = "connect"
    /\ attempts' = 0
    /\ cause' = "none"
    /\ exc' = None
    /\ cert_der' = None
    /\ certificate' = None
    /\ result' = None

InitCommon ==
    /\ now = 0
    /\ i = 0
    /\ sockets = {}
    /\ attempts = 0
    /\ cause = "none"
    /\ exc = None
    /\ cert_der = None
    /\ certificate = None
    /\ result = None
    /\ results = <<>>
    /\ ret = None
    /\ log = <<>>

(* The agent: SSLAgent() builds SSLCheckerService() with its defaults. *)
Init ==
    /\ InitCommon
    /\ warning_days = DefaultWarningDays
    /\ world = AgentWorld
    /\ request = [fn |-> "none", domains |-> <<>>]
    /\ pc = "idle"

(* _execute_function("check_ssl_certificate", {"domain": d}) *)
ExecuteSingle ==
    /\ pc = "idle"
    /\ \E d \in Domains :
          request' = [fn |-> "check_ssl_certificate", domains |-> <<d>>]
    /\ StartCheck(1)
    /\ UNCHANGED <<log, now, warning_days, world, sockets, results, ret>>

(* _execute_function("check_multiple_domains", {"domains": ds}) *)
ExecuteBatch ==
    /\ pc = "idle"
    /\ \E ds \in DomainLists :
          /\ request' = [fn |-> "check_multiple_domains", domains |-> ds]
          /\ results' = <<>>
          /\ IF ds = <<>>
             THEN /\ ret' = Some(BatchResponse(ds, <<>>))
                  /\ pc' = "done"
                  /\ UNCHANGED <<i, attempts, cause, exc, cert_der,
                                 certificate, result>>
             ELSE /\ StartCheck(1)
                  /\ UNCHANGED ret
    /\ UNCHANGED <<log, now, warning_days, world, sockets>>

(* _execute_function with any other function name *)
ExecuteUnknown ==
    /\ pc = "idle"
    /\ request' = [fn |-> "get_weather", domains |-> <<>>]
    /\ ret' = Some(UnknownResponse("get_weather"))
    /\ pc' = "done"
    /\ UNCHANGED <<log, now, warning_days, world, i, sockets, attempts, cause, exc,
                   cert_der, certificate, result, results>>

(* socket.create_connection((domain, port), timeout) *)
Connect ==
    /\ pc = "connect"
    /\ attempts' = attempts + 1
    /\ \/ \E c \in ConnectCauses :
             /\ cause' = c
             /\ exc' = Some(ConnectRaises(c))
             /\ pc' = "except"
             /\ UNCHANGED sockets
       \/ /\ sockets' = sockets \cup {[kind |-> "tcp"]}
          /\ pc' = "handshake"
          /\ UNCHANGED <<cause, exc>>
    /\ UNCHANGED <<log, now, warning_days, world, request, i, cert_der,
                   certificate, result, results, ret>>

(* Variant of WithExit that leaves the sockets open. *)
WithExitLeak(socks) == socks

(* Leaving the `with` blocks of _get_certificate, by return or by an       *)
(* exception, closes the sockets they hold.                                *)
WithExit(socks) == {}

(* Variant of VerifyFails for a context that does not verify the peer. *)
VerifyFailsDisabled(der) == FALSE

(* The default context verifies the peer: a certificate whose notAfter is  *)
(* not after the handshake time is rejected.                               *)
VerifyFails(der) == der.kind = "der" /\ der.notAfter <= now

(* context.wrap_socket(sock, server_hostname=domain); leaving the `with`   *)
(* of the TCP socket on an exception closes it.                            *)
Handshake ==
    /\ pc = "handshake"
    /\ \/ \E c \in HandshakeCauses :
             /\ cause' = c
             /\ exc' = Some(HandshakeRaises(c))
             /\ pc' = "except"
             /\ sockets' = WithExit(sockets)
       \/ \E der \in world :
             IF VerifyFails(der)
             THEN /\ cause' = "expired"
                  /\ exc' = Some(HandshakeRaises("expired"))
                  /\ pc' = "except"
                  /\ sockets' = WithExit(sockets)
             ELSE /\ sockets' = {[kind |-> "tls", peercert |-> der]}
                  /\ pc' = "getpeercert"
                  /\ UNCHANGED <<cause, exc>>
    /\ UNCHANGED <<log, now, warning_days, world, request, i, attempts, cert_der,
                   certificate, result, results, ret>>

(* return ssock.getpeercert(binary_form=True); both `with` blocks exit. *)
GetPeerCert ==
    /\ pc = "getpeercert"
    /\ \E s \in sockets :
          /\ s.kind = "tls"
          /\ cert_der' = Some(s.peercert)
    /\ sockets' = WithExit(sockets)
    /\ pc' = "parse"
    /\ UNCHANGED <<log, now, warning_days, world, request, i, attempts, cause, exc,
                   certificate, result, results, ret>>

(* One check as the history records it: what it was given (domain, the     *)
(* server's answer or what went wrong, the time) and what it produced.     *)
LogEntry(domain, der, why, t, cert, error) ==
    [domain |-> domain, cert_der |-> der, cause |-> why, t |-> t,
     certificate |-> cert, error |-> error]

(* Variant of ParseCall that answers from the first earlier check of the   *)
(* same domain when there is one.                                          *)
ParseCallCached(earlier, der, domain, t, wd) ==
    LET hits == {k \in 1..Len(earlier) :
                    earlier[k].domain = domain /\ earlier[k].certificate # None}
    IN  IF hits = {} THEN ParseCertificate(der, domain, t, wd)
        ELSE earlier[CHOOSE k \in hits : \A h \in hits : k <= h].certificate[1]

(* self._parse_certificate(cert_der, domain): the service keeps nothing    *)
(* from the earlier checks, so they do not enter the result.               *)
ParseCall(earlier, der, domain, t, wd) == ParseCertificate(der, domain, t, wd)

(* certificate = self._parse_certificate(cert_der, domain) *)
Parse ==
    /\ pc = "parse"
    /\ LET der == cert_der[1]
           e == ParseRaises(der)
       IN  IF e # None
           THEN /\ exc' = e
                /\ cause' = IF der.kind = "malformed" THEN "malformed"
                                                      ELSE "unsupported_key"
                /\ pc' = "except"
                /\ UNCHANGED <<certificate, log>>
           ELSE /\ certificate' =
                      Some(ParseCall(log, der, CurrentDomain, now, warning_days))
                /\ log' = Append(log, LogEntry(CurrentDomain, cert_der, "none",
                                               now, certificate', None))
                /\ pc' = "warn"
                /\ UNCHANGED <<exc, cause>>
    /\ UNCHANGED <<now, warning_days, world, request, i, sockets, attempts,
                   cert_der, result, results, ret>>

(* warnings = self._generate_warnings(certificate); return SSLCheckResult(...) *)
Succeed ==
    /\ pc = "warn"
    /\ result' = Some(SuccessResult(CurrentDomain, certificate[1],
                                    GenerateWarnings(certificate[1]), now))
    /\ pc' = "checked"
    /\ UNCHANGED <<log, now, warning_days, world, request, i, sockets, attempts,
                   cause, exc, cert_der, certificate, results, ret>>

(* Variant of AfterExcept that connects again after a first failure. *)
AfterExceptRetry(n) == IF n < 2 THEN "connect" ELSE "checked"

(* Each except clause returns its result: after n attempts the check is    *)
(* over.                                                                   *)
AfterExcept(n) == "checked"

(* The except clauses of check_certificate. *)
Except ==
    /\ pc = "except"
    /\ LET e == exc[1]
           k == HandlerFor(e.cls)
       IN  IF k = 0
           THEN /\ pc' = "raised"
                /\ UNCHANGED <<exc, result, log>>
           ELSE /\ result' = Some(FailedResult(CurrentDomain, ErrorText(k, e), now))
                /\ log' = Append(log, LogEntry(CurrentDomain, cert_der, cause,
                                               now, None, result'[1].error))
                /\ exc' = None
                /\ pc' = AfterExcept(attempts)
    /\ UNCHANGED <<now, warning_days, world, request, i, sockets, attempts,
                   cause, cert_der, certificate, results, ret>>

(* Variant of AddSummary that puts the new summary first. *)
AddSummaryFront(rs, summary) == <<summary>> \o rs

(* results.append({...}) *)
AddSummary(rs, summary) == Append(rs, summary)

(* check_ssl_certificate branch: build the response from the result. *)
ReturnSingle ==
    /\ pc = "checked"
    /\ request.fn = "check_ssl_certificate"
    /\ ret' = Some(SingleResponse(CurrentDomain, result[1]))
    /\ pc' = "done"
    /\ UNCHANGED <<log, now, warning_days, world, request, i, sockets, attempts,
                   cause, exc, cert_der, certificate, result, results>>

(* check_multiple_domains branch: append the summary, go on with the next  *)
(* domain, and return after the last one.                                  *)
AppendSummary ==
    /\ pc = "checked"
    /\ request.fn = "check_multiple_domains"
    /\ results' = AddSummary(results, Summary(CurrentDomain, result[1]))
    /\ IF i < Len(request.domains)
       THEN /\ StartCheck(i + 1)
            /\ UNCHANGED ret
       ELSE /\ ret' = Some(BatchResponse(request.domains, results'))
            /\ pc' = "done"
            /\ UNCHANGED <<i, attempts, cause, exc, cert_der, certificate,
                           result>>
    /\ UNCHANGED <<log, now, warning_days, world, request, sockets>>

(* The wall clock advances while a call is being served. *)
Tick ==
    /\ pc \notin {"idle", "done", "raised"}
    /\ now < MaxClock
    /\ now' = now + 1
    /\ UNCHANGED <<log, warning_days, world, request, pc, i, sockets, attempts,
                   cause, exc, cert_der, certificate, result, results, ret>>

Next ==
    \/ ExecuteSingle
    \/ ExecuteBatch
    \/ ExecuteUnknown
    \/ Connect
    \/ Handshake
    \/ GetPeerCert
    \/ Parse
    \/ Succeed
    \/ Except
    \/ ReturnSingle
    \/ AppendSummary
    \/ Tick

Spec == Init /\ [][Next]_vars

(* A direct call check_certificate(d) on a service built with any          *)
(* warning_days, against a server presenting any one certificate.          *)
InitService ==
    /\ InitCommon
    /\ warning_days \in 0..MaxWarningDays
    /\ \E der \in ServiceWorld : world = {der}
    /\ request = [fn |-> "check_certificate", domains |-> <<"a.com">>]
    /\ pc = "call"

CallService ==
    /\ pc = "call"
    /\ StartCheck(1)
    /\ UNCHANGED <<log, now, warning_days, world, request, sockets, results, ret>>

ReturnService ==
    /\ pc = "checked"
    /\ request.fn = "check_certificate"
    /\ ret' = result
    /\ pc' = "done"
    /\ UNCHANGED <<log, now, warning_days, world, request, i, sockets, attempts,
                   cause, exc, cert_der, certificate, result, results>>

NextService ==
    \/ CallService
    \/ Connect
    \/ Handshake
    \/ GetPeerCert
    \/ Parse
    \/ Succeed
    \/ Except
    \/ ReturnService
    \/ Tick

SpecService == InitService /\ [][NextService]_vars

(* A direct call check_certificate(d) against a server whose certificate   *)
(* carries any serial number.                                              *)
InitSerial ==
    /\ InitCommon
    /\ warning_days = DefaultWarningDays
    /\ \E bytes \in Serials :
          world = {WithSerial(Cert(DayTicks * (DefaultWarningDays + 1), "RSA",
                                   WeakKeyBits, IssuerR3, SubjectA), bytes)}
    /\ request = [fn |-> "check_certificate", domains |-> <<"a.com">>]
    /\ pc = "call"

SpecSerial == InitSerial /\ [][NextService]_vars

----------------------------------------------------------------------------
(* Properties *)

IsBatch == request.fn = "check_multiple_domains"

Range(seq) == { seq[k] : k \in 1..Len(seq) }

(* The step on which _parse_certificate returns a certificate; `now` is   *)
(* the time it read.                                                       *)
Parsed == pc = "parse" /\ pc' = "warn"

(* Texts an exception of the model can carry. *)
ExcTexts ==
    { ConnectRaises(c).text : c \in ConnectCauses }
    \cup { HandshakeRaises(c).text : c \in HandshakeCauses \cup {"expired"} }
    \cup { e.text : e \in UNION { Range(ParseRaises(der)) : der \in ServiceWorld } }

(* The failure kinds an error string can be read as. *)
KindsOf(error) ==
    { k \in {"timeout", "dns", "tls", "unexpected"} :
        \/ k = "timeout" /\ error = "Connection timeout"
        \/ k = "dns" /\ error = "Domain not found (DNS error)"
        \/ k = "tls" /\ \E t \in ExcTexts : error = "SSL error: " \o t
        \/ k = "unexpected" /\ \E t \in ExcTexts : error = "Unexpected error: " \o t }

(* The kind each cause of failure belongs to. *)
KindOfCause(c) ==
    CASE c \in {"connect_timeout", "handshake_timeout"} -> "timeout"
      [] c = "dns_failure" -> "dns"
      [] c \in {"protocol_error", "untrusted", "hostname_mismatch", "expired",
                "eof"} -> "tls"
      [] c \in {"refused", "reset", "malformed", "unsupported_key"} -> "unexpected"

(* C1: check_certificate never raises: every failure while fetching or     *)
(* parsing ends in a failed SSLCheckResult; in a batch the call returns    *)
(* success with a summary for every domain whatever failed on the way.     *)
C1_FailureContainment ==
    /\ pc # "raised"
    /\ (pc = "checked" /\ cause # "none") =>
           (result # None /\ result[1].success = FALSE /\ exc = None)
    /\ (pc = "done" /\ IsBatch) =>
           (ret # None /\ ret[1].success = TRUE
            /\ Len(ret[1].results) = Len(request.domains))

C1_Witness ==
    /\ pc = "done" /\ IsBatch
    /\ Len(request.domains) = 2
    /\ ret[1].results[1].status = "(x) Error"
    /\ ret[1].results[2].status = "(ok) Valid"

(* C2: a batch returns one summary per input element, total_domains is the *)
(* input length and the k-th summary is for the k-th input domain.         *)
C2_BatchOrder ==
    IsBatch =>
        /\ \A k \in 1..Len(results) :
               k <= Len(request.domains) /\ results[k].domain = request.domains[k]
        /\ pc = "done" =>
               /\ ret[1].total_domains = Len(request.domains)
               /\ Len(ret[1].results) = Len(request.domains)
               /\ \A k \in 1..Len(request.domains) :
                      ret[1].results[k].domain = request.domains[k]

C2_Witness ==
    /\ pc = "done" /\ IsBatch
    /\ request.domains = <<"a.com", "a.com">>
    /\ ret[1].results[1].status = "(ok) Valid"
    /\ ret[1].results[2].status = "(x) Error"

(* C3: in every SSLCheckResult the certificate is present iff success, the *)
(* error is present iff failure, and warnings are non-empty only on        *)
(* success.                                                                *)
C3_ResultWellFormed ==
    result # None =>
        LET r == result[1]
        IN  /\ (r.certificate # None) <=> r.success
            /\ (r.error # None) <=> ~r.success
            /\ (r.warnings # <<>>) => r.success

C3_Witness ==
    /\ result # None
    /\ ~result[1].success
    /\ result[1].error # None
    /\ result[1].certificate = None

(* C4: a certificate whose notAfter is before the time of the check is     *)
(* reported expired, not valid and not expiring soon; always isValid is    *)
(* the negation of isExpired and isExpired excludes isExpiringSoon.        *)
C4_Expired ==
    [][Parsed =>
         LET c == certificate'[1]
         IN  /\ c.isValid = ~c.isExpired
             /\ ~(c.isExpired /\ c.isExpiringSoon)
             /\ (c.notAfter < now) =>
                    (c.isExpired /\ ~c.isValid /\ ~c.isExpiringSoon)]_vars

C4_Witness ==
    /\ result # None /\ result[1].success
    /\ result[1].certificate[1].isExpired
    /\ result[1].certificate[1].daysUntilExpiry < 0

(* C5 as stated: isExpiringSoon iff 0 < daysUntilExpiry <= warningDays,    *)
(* true at daysUntilExpiry = warningDays and false at warningDays + 1, for *)
(* every warningDays.                                                      *)
C5_ThresholdAsStated ==
    certificate # None =>
        LET c == certificate[1]
        IN  /\ c.isExpiringSoon <=>
                   (0 < c.daysUntilExpiry /\ c.daysUntilExpiry <= warning_days)
            /\ (c.daysUntilExpiry = warning_days) => c.isExpiringSoon
            /\ (c.daysUntilExpiry = warning_days + 1) => ~c.isExpiringSoon

(* C5: isExpiringSoon iff 0 < daysUntilExpiry <= warningDays; for          *)
(* warningDays >= 1 it is true at daysUntilExpiry = warningDays, and it is *)
(* false at daysUntilExpiry = warningDays + 1.                             *)
C5_Threshold ==
    certificate # None =>
        LET c == certificate[1]
        IN  /\ c.isExpiringSoon <=>
                   (0 < c.daysUntilExpiry /\ c.daysUntilExpiry <= warning_days)
            /\ (warning_days >= 1 /\ c.daysUntilExpiry = warning_days) =>
                   c.isExpiringSoon
            /\ (c.daysUntilExpiry = warning_days + 1) => ~c.isExpiringSoon

C5_Witness ==
    /\ certificate # None
    /\ warning_days = DefaultWarningDays
    /\ certificate[1].daysUntilExpiry = warning_days
    /\ certificate[1].isExpiringSoon

(* C6 as stated: a certificate whose notAfter is strictly after the time   *)
(* of the check, by any amount, is reported with isExpired false and       *)
(* daysUntilExpiry > 0.                                                    *)
C6_FutureExpiryAsStated ==
    [][Parsed =>
         LET c == certificate'[1]
         IN  (c.notAfter > now) => (~c.isExpired /\ c.daysUntilExpiry > 0)]_vars

(* C6: a certificate whose notAfter is strictly after the time of the      *)
(* check is reported with isExpired false and daysUntilExpiry >= 0, and    *)
(* daysUntilExpiry > 0 exactly when at least one full day remains.         *)
C6_FutureExpiry ==
    [][Parsed =>
         LET c == certificate'[1]
         IN  (c.notAfter > now) =>
                 /\ ~c.isExpired
                 /\ c.daysUntilExpiry >= 0
                 /\ (c.daysUntilExpiry > 0) <=> (c.notAfter - now >= DayTicks)]_vars

C6_Witness ==
    /\ certificate # None
    /\ certificate[1].notAfter > now
    /\ certificate[1].daysUntilExpiry = 0
    /\ ~certificate[1].isExpired

(* C7: the weak-key warning is in the warnings iff keySize < 2048,         *)
(* whatever the expiry state, and at most once.                            *)
C7_WeakKey ==
    (result # None /\ result[1].success) =>
        LET c == result[1].certificate[1]
            w == result[1].warnings
        IN  /\ (WeakKeyWarning \in Range(w)) <=> (c.keySize < 2048)
            /\ Cardinality({ k \in 1..Len(w) : w[k] = WeakKeyWarning }) <= 1

C7_Witness ==
    /\ result # None /\ result[1].success
    /\ result[1].certificate[1].keySize < 2048
    /\ result[1].certificate[1].isExpired
    /\ WeakKeyWarning \in Range(result[1].warnings)

(* C8: at most one expiry warning, chosen by priority: EXPIRED with the    *)
(* absolute day count if isExpired, else CRITICAL if daysUntilExpiry <= 7, *)
(* else the generic one if isExpiringSoon, else none.                      *)
C8_ExpiryPriority ==
    (result # None /\ result[1].success) =>
        LET c == result[1].certificate[1]
            d == c.daysUntilExpiry
            ew == SelectSeq(result[1].warnings, LAMBDA x : x # WeakKeyWarning)
        IN  /\ Len(ew) <= 1
            /\ ew = IF c.isExpired
                    THEN <<"(!) Certificate EXPIRED "
                           \o ToString(IF d < 0 THEN 0 - d ELSE d) \o " days ago">>
                    ELSE IF d <= 7
                    THEN <<"(!!) Certificate expires in " \o ToString(d)
                           \o " days (CRITICAL)">>
                    ELSE IF c.isExpiringSoon
                    THEN <<"(!) Certificate expires in " \o ToString(d) \o " days">>
                    ELSE <<>>

C8_Witness ==
    /\ result # None /\ result[1].success
    /\ result[1].certificate[1].isExpiringSoon
    /\ result[1].certificate[1].daysUntilExpiry <= 7
    /\ Len(result[1].warnings) = 1

(* C9: every failed check reads as exactly one of timeout, DNS, TLS and    *)
(* unexpected, and that kind is the one its cause belongs to.              *)
C9_Classification ==
    (result # None /\ ~result[1].success) =>
        /\ result[1].error # None
        /\ KindsOf(result[1].error[1]) = {KindOfCause(cause)}

C9_Witness ==
    /\ result # None /\ ~result[1].success
    /\ cause = "handshake_timeout"
    /\ result[1].error[1] = "Connection timeout"

(* C10 as stated: undecodable bytes give a failed result of a kind of its  *)
(* own, distinct from the unexpected-error kind.                           *)
C10_ParseErrorKindAsStated ==
    (cause = "malformed" /\ pc \in {"checked", "done"}) =>
        /\ result # None /\ ~result[1].success
        /\ "unexpected" \notin KindsOf(result[1].error[1])

(* C10: undecodable bytes give a failed result reported as an unexpected   *)
(* error carrying the parser's text; the check neither raises nor returns  *)
(* a successful result.                                                    *)
C10_Malformed ==
    (cause = "malformed") =>
        /\ pc # "raised"
        /\ certificate = None
        /\ pc \in {"checked", "done"} =>
               /\ result # None /\ ~result[1].success
               /\ result[1].certificate = None
               /\ KindsOf(result[1].error[1]) = {"unexpected"}
               /\ result[1].error[1] = "Unexpected error: error parsing asn1 value"

C10_Witness ==
    /\ cause = "malformed"
    /\ pc = "done"
    /\ ret # None /\ ~ret[1].success

(* C11: a check makes at most one connection attempt, so a batch makes at  *)
(* most one per input element; once a check has failed its result stands   *)
(* and no further attempt is made for that element.                        *)
C11_NoRetry ==
    /\ [](attempts <= 1)
    /\ [][(result # None /\ ~result[1].success /\ i' = i) =>
              (result' = result /\ attempts' = attempts)]_vars

C11_Witness ==
    /\ pc = "done" /\ IsBatch
    /\ Len(request.domains) = 2
    /\ ret[1].results[1].status = "(x) Error"
    /\ ret[1].results[2].status = "(x) Error"
    /\ attempts = 1

(* C12: when check_certificate has returned no socket of the check is      *)
(* open, whichever way the fetch ended, and none is open when the check of *)
(* the next domain begins.                                                 *)
C12_ConnectionRelease ==
    (pc \in {"connect", "parse", "warn", "except", "checked", "done", "raised"})
        => sockets = {}

C12_Witness ==
    /\ IsBatch /\ i = 2 /\ pc = "connect"
    /\ Len(results) = 1
    /\ results[1].status = "(x) Error"
    /\ results[1].error = "SSL error: [SSL: CERTIFICATE_VERIFY_FAILED] Hostname mismatch"
    /\ sockets = {}

(* The text is the prefixed lowercase hexadecimal rendering of the number  *)
(* the bytes encode.                                                       *)
IsHexOf(text, bytes) ==
    LET lower == <<"0", "1", "2", "3", "4", "5", "6", "7",
                   "8", "9", "a", "b", "c", "d", "e", "f">>
        n == Len(text) - 2
        pad == 2 * Len(bytes) - n
        nibble(k) == IF k % 2 = 1 THEN bytes[(k + 1) \div 2] \div 16
                                  ELSE bytes[k \div 2] % 16
    IN  /\ n >= 1 /\ pad >= 0
        /\ text[1] = "0" /\ text[2] = "x"
        /\ (n > 1) => text[3] # "0"
        /\ \A k \in 1..(2 * Len(bytes)) :
               IF k <= pad THEN nibble(k) = 0
               ELSE text[2 + k - pad] = lower[nibble(k) + 1]

(* C14: serialNumber is the first 16 characters of the prefixed lowercase  *)
(* hexadecimal rendering of the serial: 16 long when the rendering has at  *)
(* least 16 characters, the whole rendering otherwise.                     *)
C14_SerialRendering ==
    certificate # None =>
        LET bytes == cert_der[1].serial
            sn == certificate[1].serialNumber
            h == Hex(bytes)
        IN  /\ IsHexOf(h, bytes)
            /\ Len(sn) = (IF Len(h) >= 16 THEN 16 ELSE Len(h))
            /\ \A k \in 1..Len(sn) : sn[k] = h[k]

C14_Witness ==
    /\ certificate # None
    /\ Len(Hex(cert_der[1].serial)) > 16
    /\ Len(certificate[1].serialNumber) = 16
    /\ certificate[1].serialNumber[16] = "5"

Summarised == pc = "checked" /\ IsBatch /\ Len(results') = Len(results) + 1

(* C15: each batch summary is labelled Valid exactly when the check        *)
(* succeeded with a certificate that is not expired, Invalid exactly when  *)
(* it succeeded with an expired one, Error exactly when it failed;         *)
(* days_remaining and expires are present exactly for successful checks,   *)
(* the error text exactly for failed ones.                                 *)
C15_BatchLabels ==
    [][Summarised =>
         LET r == result[1]
             s == results'[Len(results')]
             ok == r.success
             expired == ok /\ r.certificate[1].isExpired
         IN  /\ s.domain = r.domain
             /\ s.status \in {"(ok) Valid", "(x) Invalid", "(x) Error"}
             /\ (s.status = "(ok) Valid") <=> (ok /\ ~expired)
             /\ (s.status = "(x) Invalid") <=> (ok /\ expired)
             /\ (s.status = "(x) Error") <=> ~ok
             /\ ("days_remaining" \in DOMAIN s) <=> ok
             /\ ("expires" \in DOMAIN s) <=> ok
             /\ ("error" \in DOMAIN s) <=> ~ok
             /\ ok => /\ s.days_remaining = r.certificate[1].daysUntilExpiry
                      /\ s.expires = FormatDate(r.certificate[1].notAfter)
             /\ ~ok => s.error = r.error[1]]_vars

C15_Witness ==
    /\ pc = "done" /\ IsBatch
    /\ Len(ret[1].results) = 2
    /\ ret[1].results[1].status = "(x) Invalid"
    /\ ret[1].results[1].days_remaining < 0
    /\ ret[1].results[2].status = "(ok) Valid"

(* The ways certificate verification fails during the handshake. *)
TrustCauses == {"untrusted", "hostname_mismatch", "expired"}

TrustErrorText(c) ==
    CASE c = "untrusted" ->
             "SSL error: [SSL: CERTIFICATE_VERIFY_FAILED] self-signed certificate"
      [] c = "hostname_mismatch" ->
             "SSL error: [SSL: CERTIFICATE_VERIFY_FAILED] Hostname mismatch"
      [] c = "expired" ->
             "SSL error: [SSL: CERTIFICATE_VERIFY_FAILED] certificate has expired"

(* C16: when the handshake fails certificate verification the check ends   *)
(* in a failed result of the TLS-error kind carrying the library's text,   *)
(* no peer certificate is fetched or parsed, and the handshake never       *)
(* succeeds with a certificate the platform rejects.                       *)
C16_TrustFailure ==
    /\ [](cause \in TrustCauses =>
            /\ cert_der = None /\ certificate = None
            /\ pc \in {"checked", "done"} =>
                  /\ result # None /\ ~result[1].success
                  /\ result[1].certificate = None
                  /\ result[1].error = Some(TrustErrorText(cause))
                  /\ KindsOf(result[1].error[1]) = {"tls"})
    /\ [][(pc = "handshake" /\ pc' = "getpeercert") =>
             \A s \in sockets' :
                 (s.kind = "tls" /\ s.peercert.kind = "der")
                     => s.peercert.notAfter > now]_vars

C16_Witness ==
    /\ pc = "done" /\ request.fn = "check_ssl_certificate"
    /\ cause = "expired"
    /\ ~ret[1].success
    /\ ret[1].error = "SSL error: [SSL: CERTIFICATE_VERIFY_FAILED] certificate has expired"

(* C17: in every Certificate built by _parse_certificate, isExpired holds  *)
(* exactly when daysUntilExpiry is negative: expired by any amount gives a *)
(* strictly negative count, not expired gives a count of at least zero.    *)
C17_FlagMatchesCount ==
    certificate # None =>
        LET c == certificate[1]
        IN  /\ c.isExpired <=> (c.daysUntilExpiry < 0)
            /\ ~c.isExpired => c.daysUntilExpiry >= 0
            /\ c.isValid <=> ~c.isExpired

C17_Witness ==
    /\ certificate # None
    /\ certificate[1].isExpired
    /\ certificate[1].daysUntilExpiry = -1
    /\ certificate[1].notAfter + 1 = now

(* The warnings of a result that are about expiry. *)
ExpiryRelated(r) ==
    { k \in 1..Len(r.warnings) : r.warnings[k] # "(!) Weak key size (< 2048 bits)" }

(* C19 as stated: a successful check carries an expiry-related warning     *)
(* exactly when its certificate has isExpired or isExpiringSoon set.       *)
C19_WarningsAgreeAsStated ==
    (result # None /\ result[1].success) =>
        LET c == result[1].certificate[1]
        IN  (ExpiryRelated(result[1]) # {}) <=> (c.isExpired \/ c.isExpiringSoon)

(* C19: a successful check carries an expiry-related warning exactly when  *)
(* its certificate is expired, expiring soon, or has at most 7 days left;  *)
(* so none is missing when a flag is set, and one is emitted with both     *)
(* flags false only when daysUntilExpiry <= 7.                             *)
C19_WarningsAgree ==
    (result # None /\ result[1].success) =>
        LET c == result[1].certificate[1]
            flagged == c.isExpired \/ c.isExpiringSoon
            warned == ExpiryRelated(result[1]) # {}
        IN  /\ warned <=> (flagged \/ c.daysUntilExpiry <= 7)
            /\ flagged => warned
            /\ (warned /\ ~flagged) =>
                  /\ c.daysUntilExpiry >= 0 /\ c.daysUntilExpiry <= 7
                  /\ (c.daysUntilExpiry = 0 \/ c.daysUntilExpiry > warning_days)

C19_Witness ==
    /\ result # None /\ result[1].success
    /\ warning_days = 30
    /\ ~result[1].certificate[1].isExpired
    /\ ~result[1].certificate[1].isExpiringSoon
    /\ result[1].certificate[1].daysUntilExpiry = 0
    /\ result[1].warnings = <<"(!!) Certificate expires in 0 days (CRITICAL)">>

(* The single-domain message that describes the certificate as valid. *)
ValidMessage(domain, c) ==
    "(ok) SSL certificate for " \o domain \o " is valid until "
        \o FormatDate(c.notAfter) \o " (" \o ToString(c.daysUntilExpiry)
        \o " days remaining)"

(* C18: for a single-domain check whose certificate is expired, neither    *)
(* the message of the check_ssl_certificate branch nor the Status line of  *)
(* the A2A artifact summary describes the certificate as valid, and the    *)
(* status agrees with the label the batch path gives the same result.      *)
C18_NoExpiredShownValid ==
    (/\ pc = "done" /\ request.fn = "check_ssl_certificate"
     /\ result # None /\ result[1].success
     /\ ~result[1].certificate[1].isValid)
        => /\ ret[1].message # ValidMessage(CurrentDomain, result[1].certificate[1])
           /\ ArtifactStatus(ret[1]) # "(ok) Valid"
           /\ ArtifactStatus(ret[1]) = Summary(CurrentDomain, result[1]).status

====
